---- MODULE Spec2Model ----
(***************************************************************************)
(* A model of libpolymesh: the PolyMesh / TransPolyMeshPtr data model      *)
(* (common/mesh.rs), the in-memory geometry flattener (util/flatlist.rs)   *)
(* and the on-disk tree builder FlatPolyMesh (polymesh.rs).                *)
(*                                                                         *)
(* Rust values are modelled as TLA+ values:                                *)
(*   Option<T>        a sequence of length <= 1: None == <<>>, Some(x)     *)
(*   PolyVector       a triple of integers                                 *)
(*   MeshDef          a record [id, pos]: an opaque payload and where it   *)
(*                    sits                                                 *)
(*   PolyMesh         [mesh_type, geometry, metadata, children]            *)
(*   TransPolyMeshPtr [path, mesh, translation]                            *)
(*   HashMap          a function whose DOMAIN is the set of keys present   *)
(***************************************************************************)
EXTENDS Integers, Sequences, FiniteSets, Bags, TLC

VARIABLES
    root,        \* the PolyMesh the client is building
    flat,        \* outcome of get_flat_geometry(root), once called
    desc,        \* Option<PolyMeta>: to_poly_meta(root) since the last mutation
    name_arg,    \* history: Option of the last value written under "name"
    e_self,      \* SpecEdge: the edge new_from_transform_optional is called on
    e_other,     \* SpecEdge: Option<&TransPolyMeshPtr>, the ancestor edge
    e_out,       \* SpecEdge: Option of the edge returned
    disk,        \* SpecBuild: the directory tree FlatPolyMesh::new reads
    built        \* SpecBuild: outcome of FlatPolyMesh::new, once called

vars == <<root, flat, desc, name_arg, e_self, e_other, e_out, disk, built>>

-----------------------------------------------------------------------------
(* Bounds of the model *)

\* most nodes below the root of the in-memory tree of SpecFlat
MaxNodes == 3

\* most children add_child gives the root in SpecMesh
MaxChildren == 2

\* deepest directory below the root directory that SpecBuild puts on disk
MaxDepth == 2

\* most child references in one polymeta.json of SpecBuild
MaxRefs == 2

-----------------------------------------------------------------------------
(* Option<T> *)

None == <<>>

Some(x) == <<x>>

is_some(o) == o # None

(* PolyVector and its Add impl: componentwise *)

zero == <<0, 0, 0>>

VecAdd(a, b) == <<a[1] + b[1], a[2] + b[2], a[3] + b[3]>>

(* MeshDef: repositioning moves the payload by the edge's translation *)

MeshDef(id) == [id |-> id, pos |-> zero]

-----------------------------------------------------------------------------
(* common/mesh.rs : MeshType, TransPolyMeshPtr *)

MeshType == {"Group", "Geometry", "GeoGroup"}

TransPolyMeshPtr(path, mesh, translation) ==
    [path |-> path, mesh |-> mesh, translation |-> translation]

get_translation(self) ==
    IF self.translation # None THEN self.translation[1] ELSE zero

new_from_transform_swapped(self, other) ==
    [path        |-> other.path,
     mesh        |-> other.mesh,
     translation |-> Some(VecAdd(get_translation(self), get_translation(other)))]

new_from_transform_dropping(self, other) ==
    [path        |-> self.path,
     mesh        |-> self.mesh,
     translation |-> Some(get_translation(self))]

new_from_transform(self, other) ==
    LET this_translation  == get_translation(self)
        other_translation == get_translation(other)
    IN  [path        |-> self.path,
         mesh        |-> self.mesh,
         translation |-> Some(VecAdd(this_translation, other_translation))]

new_from_transform_optional(self, other) ==
    IF other # None THEN new_from_transform(self, other[1]) ELSE self

transformed_by(geometry, ptr) ==
    [geometry EXCEPT !.pos = VecAdd(@, get_translation(ptr))]

-----------------------------------------------------------------------------
(* common/mesh.rs : PolyMesh *)

EmptyMap == [k \in {} |-> ""]

PolyMesh_new(mesh_type, geometry) ==
    [mesh_type |-> mesh_type,
     geometry  |-> geometry,
     metadata  |-> EmptyMap,
     children  |-> <<>>]

insert(map, key, value) ==
    [k \in DOMAIN map \cup {key} |-> IF k = key THEN value ELSE map[k]]

add_metadata_replacing(self, key, value) ==
    [self EXCEPT !.metadata = insert(EmptyMap, key, value)]

add_metadata(self, key, value) ==
    [self EXCEPT !.metadata = insert(@, key, value)]

add_child_front(self, child) ==
    [self EXCEPT !.children = <<child>> \o @]

add_child(self, child) ==
    [self EXCEPT !.children = Append(@, child)]

\* Result<&String, ()> as an Option: Ok(v) is Some(v), Err(()) is None
try_get_meta_field(self, key) ==
    IF key \in DOMAIN self.metadata THEN Some(self.metadata[key]) ELSE None

get_name(self) ==
    LET r == try_get_meta_field(self, "name")
    IN  IF r # None THEN r[1] ELSE "Unnamed"

set_name(self, name) ==
    [self EXCEPT !.metadata = insert(@, "name", name)]

uses_runtime_culling(self) ==
    LET r == try_get_meta_field(self, "_beta_runtime_culling")
    IN  IF r # None THEN r[1] = "on" ELSE FALSE

enable_runtime_culling(self) ==
    add_metadata(self, "_beta_runtime_culling", "on")

contains_geometry_by_kind(self) ==
    self.mesh_type = "Geometry" \/ self.mesh_type = "GeoGroup"

contains_geometry(self) ==
    \/ self.mesh_type = "Geometry"
    \/ self.mesh_type = "GeoGroup"
    \/ is_some(self.geometry)

LATEST_POLY_META_VERSION == "latest"

PolyChildReference_zeroed(child) ==
    [path |-> child.path, translation |-> Some(get_translation(child))]

PolyChildReference(child) ==
    [path |-> child.path, translation |-> child.translation]

to_poly_meta(self) ==
    [version   |-> LATEST_POLY_META_VERSION,
     mesh_type |-> self.mesh_type,
     metadata  |-> self.metadata,
     children  |-> [i \in 1..Len(self.children) |->
                        PolyChildReference(self.children[i])]]

-----------------------------------------------------------------------------
(* util/flatlist.rs *)

\* The accumulator is all_geo together with whether an unwrap() has panicked.
RECURSIVE get_flat_geometry_recursive(_, _, _)
get_flat_geometry_recursive(root_mesh, parent_transform, all_geo) ==
    LET RECURSIVE Loop(_, _)
        Loop(i, acc) ==
            IF acc.panicked \/ i > Len(root_mesh.children) THEN acc
            ELSE
              LET child      == root_mesh.children[i]
                  abs_child  == new_from_transform_optional(child, parent_transform)
                  child_mesh == abs_child.mesh
                  pushed ==
                      IF contains_geometry(child_mesh)
                      THEN IF child_mesh.geometry = None
                           THEN [acc EXCEPT !.panicked = TRUE]
                           ELSE [acc EXCEPT !.all_geo =
                                   Append(@, transformed_by(child_mesh.geometry[1],
                                                            abs_child))]
                      ELSE acc
                  searched ==
                      IF pushed.panicked THEN pushed
                      ELSE get_flat_geometry_recursive(child.mesh, Some(abs_child),
                                                       pushed)
              IN  Loop(i + 1, searched)
    IN  Loop(1, all_geo)

get_flat_geometry_with_root(root_mesh) ==
    LET r == get_flat_geometry_recursive(root_mesh, None,
                 [panicked |-> FALSE,
                  all_geo  |-> IF is_some(root_mesh.geometry)
                               THEN <<root_mesh.geometry[1]>> ELSE <<>>])
    IN  IF r.panicked
        THEN [status |-> "panicked", all_geo |-> <<>>]
        ELSE [status |-> "returned", all_geo |-> r.all_geo]

get_flat_geometry(root_mesh) ==
    LET r == get_flat_geometry_recursive(root_mesh, None,
                                         [panicked |-> FALSE, all_geo |-> <<>>])
    IN  IF r.panicked
        THEN [status |-> "panicked", all_geo |-> <<>>]
        ELSE [status |-> "returned", all_geo |-> r.all_geo]

NotCalled == [status |-> "not_called", all_geo |-> <<>>]

-----------------------------------------------------------------------------
(* Positions in the tree: a node is named by the child indices leading to it *)

RECURSIVE NodeAt(_, _)
NodeAt(mesh, pos) ==
    IF pos = <<>> THEN mesh
    ELSE NodeAt(mesh.children[pos[1]].mesh, Tail(pos))

RECURSIVE Positions(_)
Positions(mesh) ==
    {<<>>} \cup UNION { { <<i>> \o p : p \in Positions(mesh.children[i].mesh) }
                        : i \in 1..Len(mesh.children) }

RECURSIVE add_child_at(_, _, _)
add_child_at(mesh, pos, child) ==
    IF pos = <<>> THEN add_child(mesh, child)
    ELSE [mesh EXCEPT !.children[pos[1]].mesh = add_child_at(@, Tail(pos), child)]

NodeCount(mesh) == Cardinality(Positions(mesh))

-----------------------------------------------------------------------------
(* Inputs the client draws from *)

Payloads == {"R", "S"}

Geometries == {None} \cup {Some(MeshDef(id)) : id \in Payloads}

Translations == {None, Some(<<1, 0, 0>>), Some(<<0, 0, 5>>)}

Paths == {"a", "b"}

NewMeshes == {PolyMesh_new(t, g) : t \in MeshType, g \in Geometries}

RootMeshes == {PolyMesh_new(t, g) : t \in MeshType, g \in {None, Some(MeshDef("Root"))}}

NotBuilt == [status |-> "not_called"]

IdleEdge == TransPolyMeshPtr("a", PolyMesh_new("Group", None), None)

-----------------------------------------------------------------------------
(* SpecFlat: a client builds a tree with add_child, then flattens it *)

InitFlat ==
    /\ root \in RootMeshes
    /\ flat = NotCalled
    /\ desc = None
    /\ name_arg = None
    /\ e_self = IdleEdge
    /\ e_other = None
    /\ e_out = None
    /\ disk = <<>>
    /\ built = NotBuilt

\* The client of SpecFlat names a node's children "1", "2", ... as it adds them
NextPath(mesh) == ToString(Len(mesh.children) + 1)

\* node.add_child(TransPolyMeshPtr { path, mesh: Box::new(PolyMesh::new(..)), translation })
\* on the node at pos; fields are pub, so any node of the tree can be reached.
AddChild(pos, path, mesh, translation) ==
    /\ flat.status = "not_called"
    /\ NodeCount(root) <= MaxNodes
    /\ root' = add_child_at(root, pos, TransPolyMeshPtr(path, mesh, translation))
    /\ desc' = None
    /\ UNCHANGED <<flat, name_arg, e_self, e_other, e_out, disk, built>>

\* get_flat_geometry(root): takes the tree by value, so nothing is added after it
GetFlatGeometry ==
    /\ flat.status = "not_called"
    /\ flat' = get_flat_geometry(root)
    /\ UNCHANGED <<root, desc, name_arg, e_self, e_other, e_out, disk, built>>

NextFlat ==
    \/ \E pos \in Positions(root), mesh \in NewMeshes, translation \in Translations :
           AddChild(pos, NextPath(NodeAt(root, pos)), mesh, translation)
    \/ GetFlatGeometry

SpecFlat == InitFlat /\ [][NextFlat]_vars

-----------------------------------------------------------------------------
(* What the flattener is expected to produce, stated over positions *)

Front(s) == SubSeq(s, 1, Len(s) - 1)

\* the edge that leads to the node at pos (pos is not the root)
EdgeAt(mesh, pos) == NodeAt(mesh, Front(pos)).children[pos[Len(pos)]]

\* sum of the translations of the edges from the root down to pos, unset as zero
RECURSIVE PathSum(_, _)
PathSum(mesh, pos) ==
    IF pos = <<>> THEN zero
    ELSE VecAdd(PathSum(mesh, Front(pos)), get_translation(EdgeAt(mesh, pos)))

\* the non-root nodes whose contains_geometry() holds
Emitting(mesh) ==
    {pos \in Positions(mesh) \ {<<>>} : contains_geometry(NodeAt(mesh, pos))}

\* the node's own payload, moved into root space
InRootSpace(mesh, pos) ==
    [id  |-> NodeAt(mesh, pos).geometry[1].id,
     pos |-> VecAdd(NodeAt(mesh, pos).geometry[1].pos, PathSum(mesh, pos))]

\* when each node on the way to pos was added to its parent: "1" first
RECURSIVE Stamps(_, _)
Stamps(mesh, pos) ==
    IF pos = <<>> THEN <<>>
    ELSE Append(Stamps(mesh, Front(pos)),
                CHOOSE n \in 1..(MaxNodes + 2) : ToString(n) = EdgeAt(mesh, pos).path)

\* p comes before q in pre-order: p is an ancestor of q, or at the first node
\* where they part p goes through the child that was added earlier
RECURSIVE Before(_, _)
Before(p, q) ==
    IF p = <<>> THEN q # <<>>
    ELSE IF q = <<>> THEN FALSE
    ELSE IF p[1] # q[1] THEN p[1] < q[1]
    ELSE Before(Tail(p), Tail(q))

\* how many emitting nodes come before pos, plus one: its place in the output
Rank(mesh, pos) ==
    1 + Cardinality({q \in Emitting(mesh) :
                        Before(Stamps(mesh, q), Stamps(mesh, pos))})

Occurrences(seq, v) == Cardinality({k \in 1..Len(seq) : seq[k] = v})

-----------------------------------------------------------------------------
(* Claims on get_flat_geometry, under SpecFlat *)

\* C1: when get_flat_geometry returns, the payloads it emitted are, counted
\* with multiplicity, exactly the own payloads of the non-root nodes whose
\* contains_geometry() holds, each moved by the sum of the translations of the
\* edges from the root to that node (an unset translation counting as zero).
C1_RootSpace ==
    flat.status = "returned" =>
        LET want == {InRootSpace(root, pos) : pos \in Emitting(root)}
            got  == {flat.all_geo[k] : k \in 1..Len(flat.all_geo)}
        IN  /\ got = want
            /\ \A v \in want :
                   Occurrences(flat.all_geo, v) =
                       Cardinality({pos \in Emitting(root) : InRootSpace(root, pos) = v})

\* the spec's scenario 3 with one more level: a GeoGroup at (0,0,5) with payload
\* R and below it a Geometry at (1,0,0) with payload S
C1_Witness ==
    /\ flat.status = "returned"
    /\ Len(root.children) = 1
    /\ root.children[1].translation = Some(<<0, 0, 5>>)
    /\ root.children[1].mesh.mesh_type = "GeoGroup"
    /\ Len(root.children[1].mesh.children) = 1
    /\ root.children[1].mesh.children[1].translation = Some(<<1, 0, 0>>)
    /\ root.children[1].mesh.children[1].mesh.mesh_type = "Geometry"
    /\ flat.all_geo = <<[id |-> "R", pos |-> <<0, 0, 5>>],
                        [id |-> "S", pos |-> <<1, 0, 5>>]>>

\* C2: get_flat_geometry is total: on every tree of the data model the call
\* returns a list and never panics.
C2_Total == flat.status # "panicked"

\* C5: when get_flat_geometry returns, the payload of each emitting node sits
\* at the node's pre-order place: after the payloads of its emitting ancestors
\* and of everything under a sibling subtree that was added earlier, before
\* everything else.
C5_PreOrder ==
    flat.status = "returned" =>
        /\ Len(flat.all_geo) = Cardinality(Emitting(root))
        /\ \A pos \in Emitting(root) :
               flat.all_geo[Rank(root, pos)] = InRootSpace(root, pos)

\* two sibling subtrees, the first with a descendant, all three emitting
C5_Witness ==
    /\ flat.status = "returned"
    /\ Len(root.children) = 2
    /\ Len(root.children[1].mesh.children) = 1
    /\ Len(flat.all_geo) = 3
    /\ flat.all_geo[1].id = "R"
    /\ flat.all_geo[2].id = "S"
    /\ flat.all_geo[3].id = "R"
    /\ flat.all_geo[1] # flat.all_geo[3]

\* C10: the root's own geometry is never emitted: the list returned is as long
\* as the number of non-root nodes whose contains_geometry() holds, it does not
\* hold the root's payload, and a root without children flattens to <<>>.
C10_RootNotEmitted ==
    flat.status = "returned" =>
        /\ Len(flat.all_geo) = Cardinality(Emitting(root))
        /\ \A k \in 1..Len(flat.all_geo) : flat.all_geo[k].id # "Root"
        /\ (root.children = <<>> => flat.all_geo = <<>>)

\* a Geometry or GeoGroup root with a payload and no children flattens to <<>>
C10_Witness ==
    /\ flat.status = "returned"
    /\ root.mesh_type \in {"Geometry", "GeoGroup"}
    /\ root.geometry = Some(MeshDef("Root"))
    /\ root.children = <<>>
    /\ flat.all_geo = <<>>

-----------------------------------------------------------------------------
(* SpecMesh: a client works on one PolyMesh through its methods *)

Keys == {"name", "_beta_runtime_culling", "author"}

Values == {"Foo", "on"}

Names == {"Foo", "Bar"}

ChildMeshes == {PolyMesh_new("Geometry", Some(MeshDef("S"))), PolyMesh_new("Group", None)}

ChildTranslations == Translations \cup {Some(zero)}

AddMetadata(key, value) ==
    /\ root' = add_metadata(root, key, value)
    /\ name_arg' = IF key = "name" THEN Some(value) ELSE name_arg
    /\ desc' = None
    /\ UNCHANGED <<flat, e_self, e_other, e_out, disk, built>>

SetName(name) ==
    /\ root' = set_name(root, name)
    /\ name_arg' = Some(name)
    /\ desc' = None
    /\ UNCHANGED <<flat, e_self, e_other, e_out, disk, built>>

EnableRuntimeCulling ==
    /\ root' = enable_runtime_culling(root)
    /\ desc' = None
    /\ UNCHANGED <<flat, name_arg, e_self, e_other, e_out, disk, built>>

ToPolyMeta ==
    /\ desc' = Some(to_poly_meta(root))
    /\ UNCHANGED <<root, flat, name_arg, e_self, e_other, e_out, disk, built>>

NextMesh ==
    \/ \E key \in Keys, value \in Values : AddMetadata(key, value)
    \/ \E name \in Names : SetName(name)
    \/ EnableRuntimeCulling
    \/ \E path \in Paths, mesh \in ChildMeshes, translation \in ChildTranslations :
           /\ Len(root.children) < MaxChildren
           /\ AddChild(<<>>, path, mesh, translation)
    \/ ToPolyMeta

SpecMesh == InitFlat /\ [][NextMesh]_vars

\* C7: every node of the mesh, however it was built, has contains_geometry()
\* false exactly when it is a Group without a payload, and true otherwise
\* (kind Geometry or GeoGroup, or a payload present).
C7_Containment ==
    \A pos \in Positions(root) :
        LET node == NodeAt(root, pos)
        IN  /\ node.mesh_type \in MeshType
            /\ contains_geometry(node) <=>
                   ~(node.mesh_type = "Group" /\ node.geometry = None)

\* a Group that carries a stray payload, after metadata and a child were added
C7_Witness ==
    /\ root.mesh_type = "Group"
    /\ root.geometry # None
    /\ contains_geometry(root)
    /\ Len(root.children) = 1
    /\ ~contains_geometry(root.children[1].mesh)
    /\ DOMAIN root.metadata # {}

\* C8: get_name() is "Unnamed" until a value is written under "name", and from
\* then on it is the last value written there, whatever add_child,
\* enable_runtime_culling or add_metadata on another key did since.
C8_Name ==
    get_name(root) = IF name_arg = None THEN "Unnamed" ELSE name_arg[1]

\* set_name("Bar"), then a child, the culling flag and another key were added
C8_Witness ==
    /\ name_arg = Some("Bar")
    /\ get_name(root) = "Bar"
    /\ Len(root.children) >= 1
    /\ uses_runtime_culling(root)
    /\ "author" \in DOMAIN root.metadata

\* C9: to_poly_meta leaves the node as it was, and the descriptor it returns
\* has the node's kind and metadata and one child reference per child, in
\* order, with that child's path and its stored Option translation as it is.
C9_Projection ==
    [][(desc = None /\ desc' # None) =>
          LET d == desc'[1]
          IN  /\ root' = root
              /\ d.mesh_type = root.mesh_type
              /\ d.metadata = root.metadata
              /\ Len(d.children) = Len(root.children)
              /\ \A i \in 1..Len(root.children) :
                     /\ d.children[i].path = root.children[i].path
                     /\ d.children[i].translation = root.children[i].translation]_vars

\* a descriptor of a node whose first child has no translation and whose
\* second has an explicit zero
C9_Witness ==
    /\ desc # None
    /\ Len(desc[1].children) = 2
    /\ desc[1].children[1].translation = None
    /\ desc[1].children[2].translation = Some(zero)
    /\ desc[1].children[1].path # desc[1].children[2].path
    /\ DOMAIN desc[1].metadata # {}

-----------------------------------------------------------------------------
(* SpecEdge: new_from_transform_optional applied to drawn edges *)

EdgeMeshes ==
    {PolyMesh_new("Group", None),
     PolyMesh_new("Geometry", Some(MeshDef("R"))),
     PolyMesh_new("GeoGroup", Some(MeshDef("S")))}

Edges ==
    {TransPolyMeshPtr(path, mesh, translation) :
        path \in Paths, mesh \in EdgeMeshes, translation \in ChildTranslations}

InitEdge ==
    /\ root = PolyMesh_new("Group", None)
    /\ flat = NotCalled
    /\ desc = None
    /\ name_arg = None
    /\ e_self \in Edges
    /\ e_other \in {None} \cup {Some(e) : e \in Edges}
    /\ e_out = None
    /\ disk = <<>>
    /\ built = NotBuilt

NewFromTransformOptional ==
    /\ e_out = None
    /\ e_out' = Some(new_from_transform_optional(e_self, e_other))
    /\ UNCHANGED <<root, flat, desc, name_arg, e_self, e_other, disk, built>>

NextEdge == NewFromTransformOptional

SpecEdge == InitEdge /\ [][NextEdge]_vars

\* C6: composing edge e with an ancestor p gives e's path and e's mesh and the
\* translation get_translation(e) + get_translation(p), the same translation
\* as composing p with e; without an ancestor the result is e itself, an unset
\* translation staying unset.
C6_Composition ==
    e_out # None =>
        IF e_other # None
        THEN /\ e_out[1].path = e_self.path
             /\ e_out[1].mesh = e_self.mesh
             /\ e_out[1].translation =
                    Some(VecAdd(get_translation(e_self), get_translation(e_other[1])))
             /\ e_out[1].translation =
                    new_from_transform(e_other[1], e_self).translation
        ELSE e_out[1] = e_self

\* an edge without translation composed with an ancestor of another path and
\* mesh that has one
C6_Witness ==
    /\ e_out # None
    /\ e_other # None
    /\ e_self.translation = None
    /\ e_other[1].translation = Some(<<0, 0, 5>>)
    /\ e_other[1].path # e_self.path
    /\ e_other[1].mesh # e_self.mesh
    /\ e_out[1].translation = Some(<<0, 0, 5>>)

-----------------------------------------------------------------------------
(* polymesh.rs : FlatPolyMesh, reading a directory tree *)

(* A directory is [meta, mesh, sub]:                                        *)
(*   meta  Option of what parse_poly_meta gives for its polymeta.json, a    *)
(*         [group, children] with children a sequence of [path, transform]; *)
(*         None when the file is missing or malformed                       *)
(*   mesh  Option of what mesh_from_file gives for its mesh.json            *)
(*   sub   its subdirectories by name                                       *)
(* A locator is the sequence of names from the root directory.              *)

NoDir == [meta |-> None, mesh |-> None, sub |-> EmptyMap]

RECURSIVE DirAt(_, _)
DirAt(dir, path) ==
    IF path = <<>> THEN dir
    ELSE IF path[1] \in DOMAIN dir.sub THEN DirAt(dir.sub[path[1]], Tail(path))
    ELSE NoDir

\* Result<PolyMeta, _> as an Option
parse_poly_meta(path) == DirAt(disk, path).meta

\* Result<PolyMesh, _> as an Option
mesh_from_file(path) == DirAt(disk, path).mesh

build_transformed(mesh, transform) ==
    [mesh EXCEPT !.pos = VecAdd(@, transform)]

Panicked == [panicked |-> TRUE, output |-> <<>>]

\* the branch of a descriptor that is not a group
collect_mesh_skipping(path, transform) ==
    LET mesh == mesh_from_file(path)
    IN  IF mesh = None THEN [panicked |-> FALSE, output |-> <<>>]
        ELSE [panicked |-> FALSE,
              output   |-> <<build_transformed(mesh[1], transform)>>]

collect_mesh(path, transform) ==
    LET mesh == mesh_from_file(path)
    IN  IF mesh = None THEN Panicked
        ELSE [panicked |-> FALSE,
              output   |-> <<build_transformed(mesh[1], transform)>>]

new_path(path, child) == path \o <<child.path>>

new_transform_of_child(transform, child) == child.transform

new_transform(transform, child) == VecAdd(transform, child.transform)

RECURSIVE recurse_collect_meshes(_, _, _)
recurse_collect_meshes(path, meta, transform) ==
    IF ~meta.group THEN collect_mesh(path, transform)
    ELSE
      LET RECURSIVE Loop(_, _)
          Loop(i, acc) ==
              IF acc.panicked \/ i > Len(meta.children) THEN acc
              ELSE
                LET child    == meta.children[i]
                    np       == new_path(path, child)
                    new_meta == parse_poly_meta(np)
                IN  IF new_meta = None THEN Panicked
                    ELSE
                      LET child_mesh ==
                              recurse_collect_meshes(np, new_meta[1],
                                                     new_transform(transform, child))
                      IN  IF child_mesh.panicked THEN Panicked
                          ELSE Loop(i + 1, [acc EXCEPT !.output = @ \o child_mesh.output])
      IN  Loop(1, [panicked |-> FALSE, output |-> <<>>])

FlatPolyMesh_new(root_path) ==
    LET root_meta == parse_poly_meta(root_path)
    IN  IF root_meta = None THEN [status |-> "panicked"]
        ELSE
          LET flat_meshes == recurse_collect_meshes(root_path, root_meta[1], zero)
          IN  IF flat_meshes.panicked THEN [status |-> "panicked"]
              ELSE [status      |-> "returned",
                    root_meta   |-> root_meta[1],
                    flat_meshes |-> flat_meshes.output]

-----------------------------------------------------------------------------
(* SpecBuild: FlatPolyMesh::new on a drawn directory tree *)

Transforms == {<<1, 0, 0>>, <<0, 2, 0>>}

MeshFiles == {None} \cup {Some(MeshDef(id)) : id \in Payloads}

\* the sequences over S of length at most n
RECURSIVE SeqsUpTo(_, _)
SeqsUpTo(S, n) ==
    IF n = 0 THEN {<<>>}
    ELSE LET shorter == SeqsUpTo(S, n - 1)
         IN  shorter \cup {Append(s, x) : s \in {t \in shorter : Len(t) = n - 1}, x \in S}

\* child references: the i-th names the subdirectory ToString(i)
RefLists(n) ==
    {[i \in 1..Len(ts) |-> [path |-> ToString(i), transform |-> ts[i]]] :
        ts \in SeqsUpTo(Transforms, n)}

SubDirs(subs) ==
    [name \in {ToString(i) : i \in 1..Len(subs)} |->
        subs[CHOOSE i \in 1..Len(subs) : ToString(i) = name]]

LeafDir(mesh) ==
    [meta |-> Some([group |-> FALSE, children |-> <<>>]),
     mesh |-> mesh,
     sub  |-> EmptyMap]

\* a descriptor that is not a group and still lists one child
ParentDir(refs, mesh, dir) ==
    [meta |-> Some([group |-> FALSE, children |-> refs]),
     mesh |-> mesh,
     sub  |-> SubDirs(<<dir>>)]

GroupDir(refs, subs) ==
    [meta |-> Some([group |-> TRUE, children |-> refs]),
     mesh |-> None,
     sub  |-> SubDirs(subs)]

\* the directory trees of depth at most d.  A directory is unreadable, or holds
\* a descriptor that is not a group (with a mesh.json or without; above the
\* deepest level it may still list one child), or holds a group descriptor
\* whose references name its subdirectories.
RECURSIVE Dirs(_)
Dirs(d) ==
    LET below == IF d = 0 THEN {} ELSE Dirs(d - 1)
    IN  {NoDir}
        \cup {LeafDir(m) : m \in MeshFiles}
        \cup UNION {{ParentDir(refs, m, dir) : m \in MeshFiles, dir \in below}
                      : refs \in {r \in RefLists(1) : Len(r) = 1}}
        \cup UNION {{GroupDir(refs, subs) : subs \in [1..Len(refs) -> below]}
                      : refs \in {r \in RefLists(MaxRefs) : r = <<>> \/ d > 0}}

BelowRoot == Dirs(MaxDepth - 1)

\* the root directory is drawn from Dirs(MaxDepth), one shape at a time
InitDisk ==
    \/ disk \in {NoDir} \cup {LeafDir(m) : m \in MeshFiles}
    \/ \E refs \in {r \in RefLists(1) : Len(r) = 1}, m \in MeshFiles, dir \in BelowRoot :
           disk = ParentDir(refs, m, dir)
    \/ \E refs \in RefLists(MaxRefs) : \E subs \in [1..Len(refs) -> BelowRoot] :
           disk = GroupDir(refs, subs)

InitBuild ==
    /\ root = PolyMesh_new("Group", None)
    /\ flat = NotCalled
    /\ desc = None
    /\ name_arg = None
    /\ e_self = IdleEdge
    /\ e_other = None
    /\ e_out = None
    /\ InitDisk
    /\ built = NotBuilt

\* FlatPolyMesh::new(root_path), the root directory being the locator <<>>
New ==
    /\ built' = FlatPolyMesh_new(<<>>)
    /\ UNCHANGED <<root, flat, desc, name_arg, e_self, e_other, e_out, disk>>

NextBuild == New

SpecBuild == InitBuild /\ [][NextBuild]_vars

-----------------------------------------------------------------------------
(* What the builder is expected to produce, stated over chains of references *)

(* A chain is the sequence of child indices followed from the root           *)
(* descriptor; <<>> is the root descriptor itself.                           *)

\* the locator a chain leads to, and the transforms summed along it
RECURSIVE Locator(_)
Locator(chain) ==
    IF chain = <<>> THEN <<>>
    ELSE LET up == Front(chain)
         IN  Append(Locator(up),
                    parse_poly_meta(Locator(up))[1].children[chain[Len(chain)]].path)

RECURSIVE TransformSum(_)
TransformSum(chain) ==
    IF chain = <<>> THEN zero
    ELSE LET up == Front(chain)
         IN  VecAdd(TransformSum(up),
                    parse_poly_meta(Locator(up))[1].children[chain[Len(chain)]].transform)

\* the chains of references from chain on; with through_groups only the
\* references of group descriptors are followed, else those of any descriptor
RECURSIVE ChainsFrom(_, _)
ChainsFrom(chain, through_groups) ==
    LET meta == parse_poly_meta(Locator(chain))
    IN  IF meta = None \/ (through_groups /\ ~meta[1].group) THEN {chain}
        ELSE {chain} \cup
             UNION {ChainsFrom(Append(chain, i), through_groups) :
                        i \in 1..Len(meta[1].children)}

\* chains the walk follows: every descriptor before the last is a group
Walked == ChainsFrom(<<>>, TRUE)

\* chains of references whatever the descriptors on the way are
Reachable == ChainsFrom(<<>>, FALSE)

NonGroup(chains) ==
    {c \in chains : LET meta == parse_poly_meta(Locator(c))
                    IN  meta # None /\ ~meta[1].group}

\* every load the walk makes succeeds
AllLoadsOk ==
    \A c \in Walked :
        LET meta == parse_poly_meta(Locator(c))
        IN  /\ meta # None
            /\ ~meta[1].group => mesh_from_file(Locator(c)) # None

Positioned(chain) ==
    LET mesh == mesh_from_file(Locator(chain))[1]
    IN  [id |-> mesh.id, pos |-> VecAdd(mesh.pos, TransformSum(chain))]

Place(chains, chain) ==
    1 + Cardinality({c \in chains : Before(c, chain)})

MeshPerChain(chains) ==
    /\ built.root_meta = disk.meta[1]
    /\ Len(built.flat_meshes) = Cardinality(chains)
    /\ \A c \in chains :
           /\ mesh_from_file(Locator(c)) # None
           /\ built.flat_meshes[Place(chains, c)] = Positioned(c)

-----------------------------------------------------------------------------
(* Claims on FlatPolyMesh::new, under SpecBuild *)

\* C3 as stated: when FlatPolyMesh::new returns, it gives the root descriptor
\* and one mesh for every descriptor that is not a group and that child
\* references lead to from the root, in pre-order, each its loaded geometry
\* moved by the sum of the transforms of those references.
C3_Original ==
    built.status = "returned" => MeshPerChain(NonGroup(Reachable))

\* C3 as amended: the same, for the descriptors that are not groups and that
\* the references of group descriptors lead to; the references listed by a
\* descriptor that is not a group are not followed.
C3_ThroughGroups ==
    built.status = "returned" => MeshPerChain(NonGroup(Walked))

\* the spec's scenario 2 next to a second leaf: a group at (1,0,0) holding a
\* leaf at (0,2,0), then a leaf at (0,2,0)
C3_Witness ==
    /\ built.status = "returned"
    /\ built.flat_meshes = <<[id |-> "R", pos |-> <<1, 2, 0>>],
                             [id |-> "S", pos |-> <<0, 2, 0>>]>>
    /\ Len(disk.meta[1].children) = 2
    /\ disk.sub["1"].meta[1].group

\* C4: once FlatPolyMesh::new was called, it has panicked exactly when one of
\* the loads of its walk fails, the root's included, and then the caller holds
\* no mesh list at all; it returns only when every load succeeded.
C4_FailFast ==
    built.status # "not_called" =>
        /\ built.status = "panicked" <=> ~AllLoadsOk
        /\ built.status = "panicked" => DOMAIN built = {"status"}

\* the first child loads, the second child's mesh.json does not
C4_Witness ==
    /\ built.status = "panicked"
    /\ disk.meta # None
    /\ disk.meta[1].group
    /\ Len(disk.meta[1].children) = 2
    /\ disk.sub["1"].meta # None
    /\ ~disk.sub["1"].meta[1].group
    /\ disk.sub["1"].mesh # None
    /\ disk.sub["2"].meta # None
    /\ ~disk.sub["2"].meta[1].group
    /\ disk.sub["2"].mesh = None

====
